---- MODULE Spec2Model ----
(***************************************************************************)
(* Model of src/script.py: the batch that reads rows of cokw3_content,     *)
(* cleans the article text, asks the remote generator for meta keywords    *)
(* and a meta description, and writes them back to the row.                *)
(*                                                                         *)
(* Strings that the code inspects (fulltext, introtext, the generator's    *)
(* payload) are sequences of tokens; strings it only passes along (title,  *)
(* keywords, description) are atomic values.                               *)
(***************************************************************************)
EXTENDS Integers, Sequences, FiniteSets

VARIABLES
    table,          \* committed rows of cokw3_content: id -> row
    pending,        \* updates executed on the connection and not yet committed
    conn,           \* db_conn of main: "unset", "none" (connect failed), "open", "closed"
    limit,          \* RECORDS_LIMIT as configured
    records,        \* the list get_content_records returned
    pc,             \* position in main / process_records
    i,              \* enumerate index of the record being handled (1-based)
    counts,         \* the five counters of process_records
    outcome,        \* history: the counter each handled record went to, in order
    clean_content,  \* local of process_records (line 134)
    meta_data,      \* local of process_records (line 142)
    result,         \* <<>> until process_records returned, then <<counters>>
    raised,         \* exception propagating out of process_records, or "none"
    log,            \* history: calls made, in order
    table0,         \* history: the committed rows when main first started
    run,            \* 1 in the first run of main, 2 when main is run again
    first           \* history: how the first run ended, once main is run again

vars == <<table, pending, conn, limit, records, pc, i, counts, outcome,
          clean_content, meta_data, result, raised, log, table0, run, first>>

\* What one run of main leaves untouched
ghost == <<table0, run, first>>

----------------------------------------------------------------------------
(* Bounds of the model *)

\* Rows in the content table: 0..MaxRows
MaxRows == 2

----------------------------------------------------------------------------
(* Configuration, src/script.py:16-17 *)

RECORDS_LIMIT == 2

\* RECORDS_LIMIT = None ("update all records", comment on line 16)
NoLimit == -1

\* The configurations of the limit: none, and the limits up to the shipped one
Limits == {NoLimit} \cup 0..RECORDS_LIMIT

----------------------------------------------------------------------------
(* Text: a string is a sequence of tokens.  Tag stands for one markup tag, *)
(* Sp for one whitespace character, Ch for one visible character.          *)

Tag == "<p>"
Sp == " "
Ch == "x"

\* Python None / SQL NULL in a text column
None == <<"NULL">>

\* str.strip(): drop leading and trailing whitespace
RECURSIVE lstrip(_)
lstrip(s) == IF s # <<>> /\ Head(s) = Sp THEN lstrip(Tail(s)) ELSE s

RECURSIVE rstrip(_)
rstrip(s) ==
    IF s # <<>> /\ s[Len(s)] = Sp THEN rstrip(SubSeq(s, 1, Len(s) - 1)) ELSE s

strip(s) == rstrip(lstrip(s))

\* BeautifulSoup(html, 'html.parser').get_text(): the text nodes, markup dropped
get_text(html) == SelectSeq(html, LAMBDA c : c # Tag)

\* 'not x' for a str-or-None value
IsFalsyText(x) == x = None \/ x = <<>>

\* Variant: the markup is not parsed away, the raw text is only trimmed
clean_html_text_KeepMarkup(html) ==
    IF IsFalsyText(html) THEN <<>> ELSE strip(html)

\* lines 49-53
clean_html_text(html) ==
    IF IsFalsyText(html) THEN <<>> ELSE strip(get_text(html))

\* Variant: the fallback is decided on the cleaned fulltext
get_clean_content_FallbackAfterStrip(record) ==
    LET cleaned == clean_html_text(record.fulltext)
    IN IF cleaned = <<>> THEN clean_html_text(record.introtext) ELSE cleaned

\* lines 55-59
get_clean_content(record) ==
    LET content == record.fulltext
        chosen == IF IsFalsyText(content) \/ strip(content) = <<>>
                  THEN record.introtext
                  ELSE content
    IN clean_html_text(chosen)

----------------------------------------------------------------------------
(* Rows of cokw3_content *)

\* state column: 0 unpublished, 1 published; NoState: the key is absent
NoState == -1

Row(id, title, st, ft, it, mk, md) ==
    [id |-> id, title |-> title, state |-> st, fulltext |-> ft, introtext |-> it,
     metakey |-> mk, metadesc |-> md]

\* The shapes a row takes in the model, without its id
RowShapes == {
    \* unpublished, has text, metadata set by an earlier run
    Row(0, "Rome", 0, <<Tag, Ch, Tag>>, <<>>, "oldkey", "olddesc"),
    \* published, text in fulltext
    Row(0, "Rome", 1, <<Tag, Ch, Tag>>, <<>>, "", ""),
    \* published, fulltext NULL, text in introtext
    Row(0, "Oslo", 1, None, <<Sp, Ch>>, "oldkey", "olddesc"),
    \* published, nothing but whitespace
    Row(0, "Oslo", 1, <<Sp>>, <<>>, "", ""),
    \* published, fulltext is markup around whitespace, introtext has text
    Row(0, "Lima", 1, <<Tag, Sp, Tag>>, <<Ch>>, "", ""),
    \* no state key, fulltext empty, text in introtext
    Row(0, "Lima", NoState, <<>>, <<Tag, Ch, Sp, Tag>>, "oldkey", "olddesc")
}

\* ids are not the positions 1..n
IdOf(k) == 10 * k

Tables ==
    UNION { [ {IdOf(k) : k \in 1..n} -> RowShapes ] : n \in 0..MaxRows }

WithIds(shapes) == [id \in DOMAIN shapes |-> [shapes[id] EXCEPT !.id = id]]

----------------------------------------------------------------------------
(* Content Selector, lines 33-47 *)

Min(S) == CHOOSE m \in S : \A x \in S : m <= x

\* ORDER BY id
RECURSIVE OrderById(_)
OrderById(ids) ==
    IF ids = {} THEN <<>>
    ELSE LET m == Min(ids) IN <<m>> \o OrderById(ids \ {m})

\* 'if limit:' (line 41): None and 0 add no LIMIT clause
HasLimitClause(lim) == lim # NoLimit /\ lim # 0

\* SELECT ... ORDER BY id [LIMIT n] over the committed rows
SelectRows(tbl, lim) ==
    LET ids == OrderById(DOMAIN tbl)
        n == IF HasLimitClause(lim) /\ lim < Len(ids) THEN lim ELSE Len(ids)
    IN [k \in 1..n |-> tbl[ids[k]]]

\* The value main gets (line 183): the rows, or None (here <<>> with ok
\* FALSE) when the query raised Error
get_content_records(tbl, lim, query_ok) ==
    IF query_ok THEN [ok |-> TRUE, rows |-> SelectRows(tbl, lim)]
    ELSE [ok |-> FALSE, rows |-> <<>>]

----------------------------------------------------------------------------
(* Metadata Generator, lines 61-103 *)

\* What json.loads can return, as far as the caller looks at it
Meta(kind, keys, kw, desc) ==
    [kind |-> kind, keys |-> keys, meta_keywords |-> kw, meta_description |-> desc]

NoMeta == Meta("None", {}, "", "")

\* JSON texts the remote service may put in the message content
JsonValue(tok) ==
    CASE tok = "null" -> NoMeta
      [] tok = "{}" -> Meta("dict", {}, "", "")
      [] tok = "{kw}" -> Meta("dict", {"meta_keywords"}, "rome, city", "")
      [] tok = "{desc}" -> Meta("dict", {"meta_description"}, "", "Discover Rome today.")
      [] tok = "[kw]" -> Meta("list", {}, "", "")
      [] tok = "{kw,desc}1" ->
            Meta("dict", {"meta_keywords", "meta_description"},
                 "rome, city", "Discover Rome today.")
      [] tok = "{kw,desc}2" ->
            Meta("dict", {"meta_keywords", "meta_description"},
                 "oslo, fjord", "Visit Oslo now.")

FullJson == {"{kw,desc}1", "{kw,desc}2"}
JsonTokens == {"null", "{}", "{kw}", "{desc}", "[kw]"} \cup FullJson

\* the code-fence markers: three backticks followed by json, and three backticks
FenceJson == "[fence json]"
Fence == "[fence]"
Note == "commentary"

\* Message contents: bare JSON, fenced JSON, JSON followed by commentary, no JSON
Payloads ==
    {<<j>> : j \in JsonTokens}
    \cup {<<FenceJson, Sp, j, Sp, Fence>> : j \in FullJson}
    \cup {<<j, Sp, Note>> : j \in FullJson}
    \cup {<<Note>>}

\* What requests.post / raise_for_status / response.json() come to
Responses ==
    {[kind |-> k, content |-> <<>>] :
        k \in {"network_error", "http_error", "no_choices"}}
    \cup {[kind |-> "choices", content |-> p] : p \in Payloads}

\* line 98: content.replace(FenceJson, '').replace(Fence, '').strip()
StripFences(content) ==
    strip(SelectSeq(content, LAMBDA c : c # FenceJson /\ c # Fence))

\* json.loads: one JSON text and nothing else
JsonParses(text) == Len(text) = 1 /\ text[1] \in JsonTokens

\* lines 91-103: the value returned; every exception ends in 'return None'
generate_meta_with_deepseek(title, content, response) ==
    IF response.kind # "choices" THEN NoMeta
    ELSE LET text == StripFences(response.content)
         IN IF JsonParses(text) THEN JsonValue(text[1]) ELSE NoMeta

\* Variant: only the empty dict is taken as a failed generation
IsFalsyMeta_EmptyDictOnly(m) == m.kind = "dict" /\ m.keys = {}

\* 'not meta_data' (line 144): None, and an empty dict, are falsy
IsFalsyMeta(m) == m.kind = "None" \/ (m.kind = "dict" /\ m.keys = {})

\* meta_data[key]: the exception it raises, or "none"
Subscript(m, key) ==
    IF m.kind # "dict" THEN "TypeError"
    ELSE IF key \notin m.keys THEN "KeyError"
    ELSE "none"

\* lines 150-151, evaluated in order
ShowMetaRaises(m) ==
    IF Subscript(m, "meta_keywords") # "none" THEN Subscript(m, "meta_keywords")
    ELSE Subscript(m, "meta_description")

----------------------------------------------------------------------------
(* Metadata Writer, lines 105-116 *)

NoPending == [id \in {} |-> [metakey |-> "", metadesc |-> ""]]

\* What the storage does with the UPDATE and the commit.  After a failed
\* commit the transaction is either still open on the connection or was
\* rolled back by the server.
StorageOutcomes ==
    {"ok", "execute_error", "commit_error_open", "commit_error_rolled_back"}

\* Variant: the two parameters bound in the wrong order
ExecuteUpdate_Swapped(tbl, pend, record_id, kw, desc) ==
    IF record_id \in DOMAIN tbl
    THEN [id \in DOMAIN pend \cup {record_id} |->
            IF id = record_id THEN [metakey |-> desc, metadesc |-> kw] ELSE pend[id]]
    ELSE pend

\* Variant: the UPDATE has no WHERE clause
ExecuteUpdate_NoWhere(tbl, pend, record_id, kw, desc) ==
    [id \in DOMAIN tbl |-> [metakey |-> kw, metadesc |-> desc]]

\* UPDATE ... SET metakey, metadesc WHERE id = record_id, inside the transaction
ExecuteUpdate(tbl, pend, record_id, kw, desc) ==
    IF record_id \in DOMAIN tbl
    THEN [id \in DOMAIN pend \cup {record_id} |->
            IF id = record_id THEN [metakey |-> kw, metadesc |-> desc] ELSE pend[id]]
    ELSE pend

\* connection.commit(): the transaction becomes durable
Commit(tbl, pend) ==
    [id \in DOMAIN tbl |->
        IF id \in DOMAIN pend
        THEN [tbl[id] EXCEPT !.metakey = pend[id].metakey,
                             !.metadesc = pend[id].metadesc]
        ELSE tbl[id]]

\* The call that raised mysql.connector.Error: "execute" (cursor or execute,
\* lines 107-111), "commit" (line 112), or "none"
FailedStage(storage) ==
    CASE storage = "ok" -> "none"
      [] storage = "execute_error" -> "execute"
      [] storage \in {"commit_error_open", "commit_error_rolled_back"} -> "commit"

\* Variant: the commit stands after the try block
WriterCatches_ExecuteOnly(stage) == stage = "execute"

\* lines 106 and 114: the try block spans cursor, execute and commit, and
\* 'except Error' takes every exception the connector raises
WriterCatches(stage) == stage \in {"execute", "commit"}

\* Variant: the except branch undoes the batch so far, clearing the
\* metadata of every row in a transaction of its own
update_content_meta_ClearsOnError(tbl, pend, record_id, meta_keywords, meta_description, storage) ==
    LET stage == FailedStage(storage)
        pend1 == ExecuteUpdate(tbl, pend, record_id, meta_keywords, meta_description)
        cleared == [id \in DOMAIN tbl |->
                        [tbl[id] EXCEPT !.metakey = "", !.metadesc = ""]]
    IN IF stage = "none"
       THEN [ret |-> TRUE, exc |-> "none", table |-> Commit(tbl, pend1),
             pending |-> NoPending]
       ELSE [ret |-> FALSE, exc |-> "none", table |-> cleared, pending |-> NoPending]

\* lines 106-116: the value returned (or the exception let through) and the
\* storage afterwards
update_content_meta(tbl, pend, record_id, meta_keywords, meta_description, storage) ==
    LET stage == FailedStage(storage)
        pend1 == IF stage = "execute" THEN pend
                 ELSE ExecuteUpdate(tbl, pend, record_id, meta_keywords, meta_description)
        pend2 == IF storage = "commit_error_rolled_back" THEN NoPending ELSE pend1
    IN IF stage = "none"
       THEN [ret |-> TRUE, exc |-> "none", table |-> Commit(tbl, pend1),
             pending |-> NoPending]
       ELSE IF WriterCatches(stage)
       THEN [ret |-> FALSE, exc |-> "none", table |-> tbl, pending |-> pend2]
       ELSE [ret |-> FALSE, exc |-> "Error", table |-> tbl, pending |-> pend2]

----------------------------------------------------------------------------
(* Batch Orchestrator, lines 118-173, and main, lines 175-203 *)

ZeroCounts ==
    [success |-> 0, skipped_empty |-> 0, skipped_api_errors |-> 0,
     skipped_db_errors |-> 0, skipped_state |-> 0]

\* Variant: the else branch of lines 161-162 is missing
Bump_DbErrorsUncounted(c, name) ==
    IF name = "skipped_db_errors" THEN c ELSE [c EXCEPT ![name] = @ + 1]

\* the '+= 1' of lines 131, 138, 146, 160 and 162
Bump(c, name) == [c EXCEPT ![name] = @ + 1]

\* record.get('state', 1)
StateOf(record) == IF record.state = NoState THEN 1 ELSE record.state

\* Variant: the test is written on the truth of the flag
IsUnpublished_Truthy(record) == StateOf(record) # 0

\* Variant: a record whose metadata is already set is passed over as well
IsUnpublished_OrHasMeta(record) == StateOf(record) = 0 \/ record.metakey # ""

\* line 129
IsUnpublished(record) == StateOf(record) = 0

\* line 136: 'not clean_content or clean_content.strip() == ""'
IsEmptyContent(text) == text = <<>> \/ strip(text) = <<>>

\* Variant: the writer's result is not looked at
WriteCounter_IgnoresResult(ret) == "success"

\* lines 153-162: the counter a writer result goes to
WriteCounter(ret) == IF ret THEN "success" ELSE "skipped_db_errors"

\* Variant: the delay also follows the last record
NeedsDelay_AfterLast(idx, n) == idx <= n

\* line 164
NeedsDelay(idx, n) == idx < n

\* Variant: only a failed query (None) ends main early
NoRecords_OnlyNone(got) == ~got.ok

\* line 184: 'if not records' takes None and the empty list alike
NoRecords(got) == got.rows = <<>>

\* Variant: the close stands at the end of the block, with no finally
OnLeave_NoFinally(how) == IF how = "exception" THEN "exit" ELSE "finally"

\* lines 182 and 201: the try block of main is left, by a return or by an
\* exception; either way the finally block runs next
OnLeave(how) == "finally"

\* One entry of the history of calls
Event(op, idx, id, text, kw, desc, ret, io) ==
    [op |-> op, idx |-> idx, id |-> id, text |-> text, kw |-> kw, desc |-> desc,
     ret |-> ret, io |-> io]

\* A counter is incremented; the history notes which
Tally(name) ==
    /\ counts' = Bump(counts, name)
    /\ outcome' = Append(outcome, name)

\* Calls of the first run, once main is run again
FirstEv(op) == {j \in 1..Len(first.log) : first.log[j].op = op}

\* The surroundings answer a second run as they answered the first: the
\* connect, the query, the generator for a record and the storage for a row
SameConnect(ok) == run = 1 \/ ok = (first.conn # "none")

SameQuery(query_ok) ==
    run = 1 \/ \A j \in FirstEv("select") : query_ok = (first.log[j].ret = "rows")

SameMeta(id, m) ==
    run = 1 \/ \A j \in FirstEv("generate") :
                first.log[j].id = id =>
                    /\ first.log[j].ret = m.kind
                    /\ first.log[j].kw = m.meta_keywords
                    /\ first.log[j].desc = m.meta_description

SameStorage(id, storage) ==
    run = 1 \/ \A j \in FirstEv("write") :
                first.log[j].id = id => first.log[j].io = storage

\* Nothing is known of a first run while it is under way
NoFirst ==
    [conn |-> "unset", log |-> <<>>, outcome |-> <<>>, result |-> <<>>,
     raised |-> "none", table |-> <<>>]

Init ==
    /\ table \in {WithIds(t) : t \in Tables}
    /\ limit \in Limits
    /\ pending = NoPending
    /\ conn = "unset"
    /\ records = <<>>
    /\ pc = "connect"
    /\ i = 0
    /\ counts = ZeroCounts
    /\ outcome = <<>>
    /\ clean_content = <<>>
    /\ meta_data = NoMeta
    /\ result = <<>>
    /\ raised = "none"
    /\ log = <<>>
    /\ table0 = table
    /\ run = 1
    /\ first = NoFirst

\* lines 178-180: get_db_connection; None ends main before the try block
Connect ==
    /\ pc = "connect"
    /\ \E ok \in BOOLEAN :
        /\ SameConnect(ok)
        /\ conn' = IF ok THEN "open" ELSE "none"
        /\ pc' = IF ok THEN "select" ELSE "exit"
    /\ UNCHANGED <<table, pending, limit, records, i, counts, outcome, clean_content,
                   meta_data, result, raised, log>>
    /\ UNCHANGED ghost

\* lines 183-191: get_content_records, 'if not records: return', and the
\* start of process_records (lines 119-123)
Select ==
    /\ pc = "select"
    /\ \E query_ok \in BOOLEAN :
        LET got == get_content_records(table, limit, query_ok)
        IN /\ SameQuery(query_ok)
           /\ records' = got.rows
           /\ log' = Append(log, Event("select", 0, 0, <<>>, "", "",
                                       IF got.ok THEN "rows" ELSE "None", ""))
           /\ pc' = IF NoRecords(got) THEN OnLeave("return") ELSE "loop"
           /\ i' = IF NoRecords(got) THEN i ELSE 1
    /\ counts' = ZeroCounts
    /\ outcome' = <<>>
    /\ UNCHANGED <<table, pending, conn, limit, clean_content, meta_data,
                   result, raised>>
    /\ UNCHANGED ghost

\* lines 125-132: the next record, and the skip of an unpublished one
BeginRecord ==
    /\ pc = "loop"
    /\ i <= Len(records)
    /\ IF IsUnpublished(records[i])
       THEN /\ Tally("skipped_state")
            /\ i' = i + 1
            /\ pc' = "loop"
       ELSE /\ pc' = "extract"
            /\ UNCHANGED <<counts, outcome, i>>
    /\ UNCHANGED <<table, pending, conn, limit, records, clean_content,
                   meta_data, result, raised, log>>
    /\ UNCHANGED ghost

\* lines 134-139
Extract ==
    /\ pc = "extract"
    /\ LET text == get_clean_content(records[i])
       IN /\ clean_content' = text
          /\ log' = Append(log, Event("extract", i, records[i].id, text, "", "", "", ""))
          /\ IF IsEmptyContent(text)
             THEN /\ Tally("skipped_empty")
                  /\ i' = i + 1
                  /\ pc' = "loop"
             ELSE /\ pc' = "generate"
                  /\ UNCHANGED <<counts, outcome, i>>
    /\ UNCHANGED <<table, pending, conn, limit, records, meta_data, result, raised>>
    /\ UNCHANGED ghost

\* lines 141-147
Generate ==
    /\ pc = "generate"
    /\ \E response \in Responses :
        LET m == generate_meta_with_deepseek(records[i].title, clean_content, response)
        IN /\ SameMeta(records[i].id, m)
           /\ meta_data' = m
           /\ log' = Append(log, Event("generate", i, records[i].id, clean_content,
                                       m.meta_keywords, m.meta_description, m.kind, ""))
           /\ IF IsFalsyMeta(m)
              THEN /\ Tally("skipped_api_errors")
                   /\ i' = i + 1
                   /\ pc' = "loop"
              ELSE /\ pc' = "show"
                   /\ UNCHANGED <<counts, outcome, i>>
    /\ UNCHANGED <<table, pending, conn, limit, records, clean_content, result, raised>>
    /\ UNCHANGED ghost

\* lines 149-151: the two subscripts; an exception leaves process_records
\* and reaches the finally block of main
ShowMeta ==
    /\ pc = "show"
    /\ LET exc == ShowMetaRaises(meta_data)
       IN /\ raised' = exc
          /\ pc' = IF exc = "none" THEN "write" ELSE OnLeave("exception")
    /\ UNCHANGED <<table, pending, conn, limit, records, i, counts, outcome, clean_content,
                   meta_data, result, log>>
    /\ UNCHANGED ghost

\* lines 153-162
Write ==
    /\ pc = "write"
    /\ \E storage \in StorageOutcomes :
        LET w == update_content_meta(table, pending, records[i].id,
                                     meta_data.meta_keywords,
                                     meta_data.meta_description, storage)
            ret == IF w.exc # "none" THEN "raised"
                   ELSE IF w.ret THEN "True" ELSE "False"
        IN /\ SameStorage(records[i].id, storage)
           /\ table' = w.table
           /\ pending' = w.pending
           /\ log' = Append(log, Event("write", i, records[i].id, <<>>,
                                       meta_data.meta_keywords,
                                       meta_data.meta_description, ret, storage))
           /\ IF w.exc = "none"
              THEN /\ Tally(WriteCounter(w.ret))
                   /\ pc' = "pace"
                   /\ UNCHANGED raised
              ELSE /\ raised' = w.exc
                   /\ pc' = OnLeave("exception")
                   /\ UNCHANGED <<counts, outcome>>
    /\ UNCHANGED <<conn, limit, records, i, clean_content, meta_data, result>>
    /\ UNCHANGED ghost

\* Variant: after the delay the same record is taken up again
Pace_NoAdvance ==
    /\ pc = "pace"
    /\ log' = IF NeedsDelay(i, Len(records))
              THEN Append(log, Event("sleep", i, records[i].id, <<>>, "", "", "", ""))
              ELSE log
    /\ pc' = "loop"
    /\ UNCHANGED <<table, pending, conn, limit, records, i, counts, outcome,
                   clean_content, meta_data, result, raised>>
    /\ UNCHANGED ghost

\* lines 164-165, and the step to the next record
Pace ==
    /\ pc = "pace"
    /\ log' = IF NeedsDelay(i, Len(records))
              THEN Append(log, Event("sleep", i, records[i].id, <<>>, "", "", "", ""))
              ELSE log
    /\ i' = i + 1
    /\ pc' = "loop"
    /\ UNCHANGED <<table, pending, conn, limit, records, counts, outcome, clean_content,
                   meta_data, result, raised>>
    /\ UNCHANGED ghost

\* lines 167-173 and 191-199: the counters are returned and reported
Return ==
    /\ pc = "loop"
    /\ i > Len(records)
    /\ result' = <<counts>>
    /\ pc' = OnLeave("return")
    /\ UNCHANGED <<table, pending, conn, limit, records, i, counts, outcome, clean_content,
                   meta_data, raised, log>>
    /\ UNCHANGED ghost

\* lines 201-203: db_conn.close(); an open transaction is rolled back
Finally ==
    /\ pc = "finally"
    /\ conn' = "closed"
    /\ pending' = NoPending
    /\ log' = Append(log, Event("close", 0, 0, <<>>, "", "", "", ""))
    /\ pc' = "exit"
    /\ UNCHANGED <<table, limit, records, i, counts, outcome, clean_content, meta_data,
                   result, raised>>
    /\ UNCHANGED ghost

Next ==
    \/ Connect
    \/ Select
    \/ BeginRecord
    \/ Extract
    \/ Generate
    \/ ShowMeta
    \/ Write
    \/ Pace
    \/ Return
    \/ Finally

Spec == Init /\ [][Next]_vars

\* lines 205-206: the script is started again on the store as the first run
\* left it; how the first run ended is kept for comparison
Rerun ==
    /\ pc = "exit"
    /\ run = 1
    /\ run' = 2
    /\ first' = [conn |-> conn, log |-> log, outcome |-> outcome, result |-> result,
                 raised |-> raised, table |-> table]
    /\ pc' = "connect"
    /\ conn' = "unset"
    /\ pending' = NoPending
    /\ records' = <<>>
    /\ i' = 0
    /\ counts' = ZeroCounts
    /\ outcome' = <<>>
    /\ clean_content' = <<>>
    /\ meta_data' = NoMeta
    /\ result' = <<>>
    /\ raised' = "none"
    /\ log' = <<>>
    /\ UNCHANGED <<table, limit, table0>>

NextRerun ==
    \/ Next
    \/ Rerun

\* The second run is checked for the shipped limit and for no limit
InitRerun ==
    /\ Init
    /\ limit \in {NoLimit, RECORDS_LIMIT}

\* Two runs of main, one after the other
SpecRerun == InitRerun /\ [][NextRerun]_vars

----------------------------------------------------------------------------
(* Properties *)

N == Len(records)

CounterNames ==
    {"success", "skipped_empty", "skipped_api_errors", "skipped_db_errors",
     "skipped_state"}

Total(c) ==
    c.success + c.skipped_empty + c.skipped_api_errors + c.skipped_db_errors
    + c.skipped_state

\* Positions in the history of the calls of one kind, and of one record
Ev(op) == {j \in 1..Len(log) : log[j].op = op}
EvOf(op, k) == {j \in Ev(op) : log[j].idx = k}

\* The writer came back with True or False
Reported(j) == log[j].ret \in {"True", "False"}

WellFormedMeta(m) ==
    m.kind = "dict" /\ m.keys = {"meta_keywords", "meta_description"}

\* The body as the specification describes the choice, and what is left of
\* it once markup and surrounding whitespace are gone
RawBlank(x) == x = None \/ \A j \in 1..Len(x) : x[j] = Sp
ChosenBody(r) == IF RawBlank(r.fulltext) THEN r.introtext ELSE r.fulltext
HasVisibleText(x) == x # None /\ \E j \in 1..Len(x) : x[j] = Ch

\* C1: a failure while handling one record never aborts the batch: no
\* per-record error propagates out of process_records, and once main is
\* over every fetched record was handled and the counters were returned.
C1_BatchNeverAborted ==
    /\ raised = "none"
    /\ (pc = "exit" /\ N > 0) => (result # <<>> /\ Len(outcome) = N)

\* C2: the generator returns null or an object holding both meta_keywords
\* and meta_description; every other payload comes back as null.
C2_GeneratorResultWellFormed ==
    meta_data = NoMeta \/ WellFormedMeta(meta_data)

C4_CountersSumToTotal ==
    /\ Total(counts) = Len(outcome)
    /\ \A name \in CounterNames :
        counts[name] = Cardinality({k \in 1..Len(outcome) : outcome[k] = name})
    /\ Len(outcome) = (IF pc = "pace" THEN i ELSE IF i = 0 THEN 0 ELSE i - 1)
    /\ result # <<>> => (result[1] = counts /\ Total(result[1]) = N)

C4_Witness ==
    /\ result # <<>>
    /\ N = 2
    /\ counts.skipped_api_errors = 1
    /\ counts.skipped_db_errors = 1

\* C5: a record with state = 0 is counted as skipped_state, and neither the
\* extractor nor the generator nor the writer is ever called for it.
C5_UnpublishedSkipped ==
    \A k \in 1..N :
        records[k].state = 0 =>
            /\ k < i => outcome[k] = "skipped_state"
            /\ EvOf("extract", k) = {}
            /\ EvOf("generate", k) = {}
            /\ EvOf("write", k) = {}

C5_Witness ==
    /\ pc = "exit"
    /\ N = 2
    /\ records[2].state = 0
    /\ outcome = <<"success", "skipped_state">>

\* C6: a record with state # 0 whose chosen body (fulltext, or introtext when
\* fulltext is blank) holds no text once markup is stripped is counted as
\* skipped_empty, and neither the generator nor the writer is called for it.
C6_EmptyBodySkipped ==
    \A k \in 1..N :
        (records[k].state # 0 /\ ~HasVisibleText(ChosenBody(records[k]))) =>
            /\ (k < i \/ EvOf("extract", k) # {}) =>
                    (Len(outcome) >= k /\ outcome[k] = "skipped_empty")
            /\ EvOf("generate", k) = {}
            /\ EvOf("write", k) = {}

C6_Witness ==
    /\ pc = "exit"
    /\ N = 2
    /\ records[1].state # 0
    /\ records[1].fulltext = <<Tag, Sp, Tag>>
    /\ outcome = <<"skipped_empty", "success">>

\* C7: when the generator returns null the record is counted as
\* skipped_api_errors and the writer is not called for it; every call of
\* the writer follows a non-null result of the generator for the same record.
C7_NullMetaSkipsWriter ==
    /\ \A j \in Ev("generate") :
        log[j].ret = "None" =>
            /\ Len(outcome) >= log[j].idx
            /\ outcome[log[j].idx] = "skipped_api_errors"
            /\ EvOf("write", log[j].idx) = {}
    /\ \A j \in Ev("write") :
        \E g \in Ev("generate") :
            /\ g < j
            /\ log[g].idx = log[j].idx
            /\ log[g].id = log[j].id
            /\ log[g].ret # "None"

C7_Witness ==
    /\ pc = "exit"
    /\ \E j \in EvOf("generate", 1) : log[j].ret = "None"
    /\ EvOf("write", 1) = {}
    /\ EvOf("write", 2) # {}
    /\ outcome[1] = "skipped_api_errors"

\* C8: when the writer reports a result, the record is counted as success
\* exactly when that result is True; the writer was called with the record's
\* id and with the keywords and description the generator returned for that
\* record; and after a True the row with that id holds exactly these two
\* values, to the end of the batch.
C8_WriteAppliesGeneratedMeta ==
    \A j \in Ev("write") :
        Reported(j) =>
            LET k == log[j].idx
            IN /\ Len(outcome) >= k
               /\ (outcome[k] = "success") <=> (log[j].ret = "True")
               /\ log[j].id = records[k].id
               /\ Cardinality(EvOf("generate", k)) = 1
               /\ \A g \in EvOf("generate", k) :
                    /\ g < j
                    /\ log[g].kw = log[j].kw
                    /\ log[g].desc = log[j].desc
               /\ log[j].ret = "True" =>
                    /\ table[log[j].id].metakey = log[j].kw
                    /\ table[log[j].id].metadesc = log[j].desc

C8_Witness ==
    /\ pc = "exit"
    /\ N = 2
    /\ \E j \in EvOf("write", 1) :
        /\ log[j].ret = "True"
        /\ log[j].id = IdOf(1)
        /\ log[j].kw = "rome, city"
        /\ log[j].desc = "Discover Rome today."
    /\ records[1].metakey = "oldkey"
    /\ table[IdOf(1)].metakey = "rome, city"
    /\ table[IdOf(1)].metadesc = "Discover Rome today."
    /\ table[IdOf(2)].metakey = "oslo, fjord"

\* C9: when the writer returns False the record is counted as
\* skipped_db_errors, success counts only the writes that returned True, and
\* the batch goes on to the next record.
C9_WriterFailureCounted ==
    /\ \A j \in Ev("write") :
        log[j].ret = "False" =>
            LET k == log[j].idx
            IN /\ Len(outcome) >= k
               /\ outcome[k] = "skipped_db_errors"
               /\ (i = k /\ pc = "pace") \/ i > k
    /\ counts.success = Cardinality({j \in Ev("write") : log[j].ret = "True"})

C9_Witness ==
    /\ \E j \in EvOf("write", 1) : log[j].ret = "False"
    /\ EvOf("extract", 2) # {}
    /\ counts.success = 0
    /\ counts.skipped_db_errors = 1

\* C10: the writer returns True only when its commit succeeded, and when the
\* update or the commit fails it returns False; no storage error leaves it.
C10_WriterReturnsFalseOnFailure ==
    /\ \A j \in Ev("write") :
        /\ log[j].ret = "True" => log[j].io = "ok"
        /\ log[j].io # "ok" => log[j].ret = "False"
    /\ raised # "Error"

C10_Witness ==
    /\ \E j \in Ev("write") :
        log[j].io = "commit_error_open" /\ log[j].ret = "False"
    /\ \E j \in Ev("write") : log[j].io = "execute_error" /\ log[j].ret = "False"

\* Storage operations in the history: the query, the updates, the close
StorageOps == {"select", "write", "close"}

\* C11: when the connection was acquired it is closed exactly once before
\* main ends, on every exit path (normal completion, failed or empty
\* selection, exception in the batch), and no storage operation follows
\* the close.
C11_ConnectionClosedOnce ==
    /\ Cardinality(Ev("close")) <= 1
    /\ conn = "closed" <=> Ev("close") # {}
    /\ (pc = "exit" /\ conn # "none") =>
            (conn = "closed" /\ Cardinality(Ev("close")) = 1)
    /\ conn \in {"unset", "none"} => log = <<>>
    /\ \A j \in Ev("close") : \A n \in 1..Len(log) :
            (n > j) => log[n].op \notin StorageOps

C11_Witness ==
    /\ pc = "exit"
    /\ raised = "KeyError"
    /\ EvOf("write", 1) # {}
    /\ conn = "closed"
    /\ log[Len(log)].op = "close"

\* C12: when the connection cannot be established, or the selection fails,
\* or it returns no records, main returns early: process_records is not
\* entered, so no extractor, generator, writer or delay call is made, and
\* nothing is written to the store.
EndedEarly ==
    \/ conn = "none"
    \/ \E j \in Ev("select") : log[j].ret = "None"
    \/ Ev("select") # {} /\ records = <<>>

C12_EarlyReturnTouchesNothing ==
    EndedEarly =>
        /\ pc \in {"finally", "exit"}
        /\ \A j \in 1..Len(log) : log[j].op \in {"select", "close"}
        /\ result = <<>>
        /\ outcome = <<>>
        /\ table = table0
        /\ pending = NoPending

C12_Witness ==
    /\ pc = "exit"
    /\ DOMAIN table0 = {}
    /\ \E j \in Ev("select") : log[j].ret = "rows"
    /\ records = <<>>
    /\ conn = "closed"

\* C13: a batch neither creates nor deletes rows; of every row only metakey
\* and metadesc may change, and only for a record that reached the writer.
\* Rows skipped before the writer, and rows not fetched, keep every field.
C13_OnlyMetaOfWrittenRowsChanges ==
    /\ DOMAIN table = DOMAIN table0
    /\ \A id \in DOMAIN table :
        /\ table[id].id = table0[id].id
        /\ table[id].title = table0[id].title
        /\ table[id].fulltext = table0[id].fulltext
        /\ table[id].introtext = table0[id].introtext
        /\ table[id].state = table0[id].state
        /\ table[id] # table0[id] => \E j \in Ev("write") : log[j].id = id

C13_Witness ==
    /\ pc = "exit"
    /\ outcome = <<"skipped_empty", "success">>
    /\ table[IdOf(1)] = table0[IdOf(1)]
    /\ table[IdOf(2)].metakey # table0[IdOf(2)].metakey
    /\ table[IdOf(2)].fulltext = table0[IdOf(2)].fulltext

\* The writer returned True for the row: its update is committed
CommittedWrites(id) ==
    {j \in Ev("write") : log[j].id = id /\ log[j].ret = "True"}

\* C14: no rollback: once a record's write is committed, the row holds the
\* committed metakey and metadesc and no later step of the batch changes it,
\* also when a later record fails in the generator or in the writer.
C14_CommittedWritesStay ==
    [][\A id \in DOMAIN table : \A j \in CommittedWrites(id) :
            /\ table[id].metakey = log[j].kw
            /\ table[id].metadesc = log[j].desc
            /\ table'[id] = table[id]]_vars

C14_Witness ==
    /\ pc = "exit"
    /\ outcome = <<"success", "skipped_db_errors">>
    /\ \E j \in CommittedWrites(IdOf(1)) :
        /\ table[IdOf(1)].metakey = log[j].kw
        /\ table[IdOf(1)].metakey # table0[IdOf(1)].metakey

\* C15 (as claimed): the selection is in ascending id order and is the first
\* rows by id; whenever a limit is given it holds at most that many records,
\* and only without a limit it holds every row.
C15_SelectionOrderedAndBounded ==
    \A j \in Ev("select") :
        log[j].ret = "rows" =>
            /\ \A a, b \in 1..N : a < b => records[a].id < records[b].id
            /\ \A k \in 1..N : records[k] = table0[records[k].id]
            /\ \A id \in DOMAIN table0 :
                (\A k \in 1..N : records[k].id # id) =>
                    \A k \in 1..N : records[k].id < id
            /\ limit = NoLimit => N = Cardinality(DOMAIN table0)
            /\ limit # NoLimit => N <= limit

\* Calls made for a record, in the order the loop makes them
CallRank(op) ==
    CASE op = "extract" -> 1
      [] op = "generate" -> 2
      [] op = "write" -> 3
      [] op = "sleep" -> 4

Calls == {j \in 1..Len(log) : log[j].op \in {"extract", "generate", "write", "sleep"}}

\* C16: the records are handled one at a time in selection order, each once:
\* every call for record k comes before every call for record k + 1, the
\* calls for one record come in the order extract, generate, write, and no
\* record has more than one generator call or more than one writer call.
C16_SequentialOncePerRecord ==
    /\ \A a, b \in Calls :
        a < b =>
            \/ log[a].idx < log[b].idx
            \/ log[a].idx = log[b].idx /\ CallRank(log[a].op) < CallRank(log[b].op)
    /\ \A j \in Calls :
        /\ log[j].idx \in 1..N
        /\ log[j].idx <= i
        /\ log[j].id = records[log[j].idx].id
    /\ \A k \in 1..N :
        /\ Cardinality(EvOf("extract", k)) <= 1
        /\ Cardinality(EvOf("generate", k)) <= 1
        /\ Cardinality(EvOf("write", k)) <= 1

C16_Witness ==
    /\ pc = "exit"
    /\ \E g1 \in EvOf("generate", 1), w1 \in EvOf("write", 1),
          g2 \in EvOf("generate", 2), w2 \in EvOf("write", 2) :
        g1 < w1 /\ w1 < g2 /\ g2 < w2
    /\ \E j \in EvOf("write", 1) : log[j].ret = "False"

\* C17: a second run over the store the first run left regenerates and
\* overwrites: the metakey and metadesc already in the rows change nothing.
\* With the generator and the storage answering as in the first run, the
\* second run makes the same calls with the same arguments, counts every
\* record as the first run did and leaves the same store.
C17_RerunRepeatsFirstRun ==
    (run = 2 /\ pc = "exit") =>
        /\ log = first.log
        /\ outcome = first.outcome
        /\ result = first.result
        /\ raised = first.raised
        /\ table = first.table

C17_Witness ==
    /\ run = 2
    /\ pc = "exit"
    /\ outcome = <<"success", "success">>
    /\ first.table # table0
    /\ records[1].metakey = "rome, city"
    /\ \E j \in EvOf("write", 1) : log[j].ret = "True" /\ log[j].kw = "rome, city"

\* C18 (as claimed): between any two consecutive generator calls of a batch
\* there is a delay, also when the earlier call returned null.
C18_GeneratorCallsPaced ==
    \A a, b \in Ev("generate") :
        a < b => \E s \in Ev("sleep") : a < s /\ s < b

\* C19 (as claimed): when main is over, the rows whose metakey or metadesc
\* differ from what they were at the start are exactly the rows of the
\* records counted as success; an update whose commit failed is not made
\* durable by a later record's commit.
C19_DurableChangesAreSuccesses ==
    pc = "exit" =>
        {id \in DOMAIN table : table[id] # table0[id]}
            = {records[k].id : k \in {n \in 1..Len(outcome) : outcome[n] = "success"}}

\* What is left of a body once markup and surrounding whitespace are gone,
\* read off the positions of its tokens
TextOf(body) ==
    LET plain == IF body = None THEN <<>> ELSE SelectSeq(body, LAMBDA c : c # Tag)
        inked == {j \in 1..Len(plain) : plain[j] # Sp}
    IN IF inked = {} THEN <<>>
       ELSE SubSeq(plain, Min(inked), CHOOSE m \in inked : \A j \in inked : j <= m)

\* C20: the extractor gets fulltext unless the raw fulltext is absent, empty
\* or whitespace only, and then introtext; the choice looks at the raw
\* fulltext, so markup that strips to nothing is not replaced by introtext
\* and the record is counted as skipped_empty though introtext has text.
C20_BodyChosenOnRawFulltext ==
    \A j \in Ev("extract") :
        LET r == records[log[j].idx]
        IN /\ log[j].text = TextOf(ChosenBody(r))
           /\ (~RawBlank(r.fulltext) /\ ~HasVisibleText(r.fulltext)) =>
                /\ log[j].text = <<>>
                /\ Len(outcome) >= log[j].idx
                /\ outcome[log[j].idx] = "skipped_empty"

C20_Witness ==
    /\ pc = "exit"
    /\ N = 2
    /\ records[1].fulltext = <<Tag, Sp, Tag>>
    /\ HasVisibleText(records[1].introtext)
    /\ outcome[1] = "skipped_empty"
    /\ \E j \in EvOf("extract", 2) :
        /\ records[2].fulltext = None
        /\ log[j].text = <<Ch>>

====
